---- MODULE Spec2Model ----
(***************************************************************************)
(* Quiz engine (QuizEngine) and progress store (ProgressManager) of the    *)
(* ChildPsych course site, src/js/quiz.js.                                 *)
(*                                                                         *)
(* Conventions of the model                                                *)
(*  - a JavaScript number, null or NaN is a tagged record (Num, Null,      *)
(*    NaN), so that values of different JavaScript types can be compared;  *)
(*  - a JavaScript object used as a map (matchedPairs, correctPairs,       *)
(*    data.modules) is a function whose DOMAIN is the set of own keys;     *)
(*  - the array sectionsCompleted is a bag of section ids: the code uses   *)
(*    only indexOf, push and length, none of which depends on the order;   *)
(*  - the ISO timestamps startedAt / lastUpdated are left out;             *)
(*  - Math.round is exact round-half-up on rationals.                      *)
(***************************************************************************)
EXTENDS Integers, Sequences, FiniteSets, Bags, TLC

VARIABLES
  \* ---- ProgressManager (one page's store) and the browser's localStorage
  data,            \* this.data
  storage,         \* localStorage[STORAGE_KEY]: absent, unparseable text or a document
  storageThrows,   \* the browser refuses localStorage access (privacy mode, quota)
  emitted,         \* the progressUpdated events dispatched by the latest handler
  otherTab,        \* a second tab on the same origin and its ProgressManager, if one is open
  \* ---- QuizEngine
  bank,            \* what the fetch of quizzes.json will deliver for this.moduleId
  loadState,       \* "pending" | "loaded" | "failed"
  questions,       \* this.questions
  passingScore,    \* this.passingScore
  currentQuestionIndex,
  answers,
  score,
  isComplete,
  selectedOptionId,
  hasChecked,
  dragSelectedSource,
  matchedPairs,
  aliased,         \* index of the answer whose payload IS the matchedPairs object, or -1
  view,            \* what container.innerHTML shows
  viewIndex,       \* the question the rendered DOM (and its handlers) belongs to
  srcMatchedEls,   \* .drag-item elements carrying class is-matched
  tgtMatchedEls,   \* .drop-zone elements carrying class is-matched
  gsapDrag,        \* _initDragMatch chooses pointer drag (TRUE) or click-to-match
  resultsPanel,    \* what the results panel shows: [scorePercent, isPassing]
  timers,          \* pending setTimeout(..., 130) callbacks, oldest first
  reports          \* saveQuizScore calls made by the engine in the current pass

storeVars  == <<data, storage, storageThrows, emitted, otherTab>>
engineVars == <<bank, loadState, questions, passingScore, currentQuestionIndex,
                answers, score, isComplete, selectedOptionId, hasChecked,
                dragSelectedSource, matchedPairs, aliased, view, viewIndex,
                srcMatchedEls, tgtMatchedEls, gsapDrag, resultsPanel, timers,
                reports>>
vars == <<storeVars, engineVars>>

(***************************************************************************)
(* Bounds of the model                                                     *)
(***************************************************************************)
MaxSection  == 11   \* section ids up to MaxSection are offered to markSectionComplete
MaxAttempts == 2    \* saveQuizScore is offered while quizAttempts < MaxAttempts
MaxReports  == 2    \* engine steps that report are offered while quizAttempts < MaxReports
MaxTimers   == 2    \* at most MaxTimers setTimeout callbacks are pending

(***************************************************************************)
(* JavaScript values                                                       *)
(***************************************************************************)
Null   == [kind |-> "null", val |-> 0]
NaN    == [kind |-> "NaN", val |-> 0]
Num(n) == [kind |-> "number", val |-> n]

Min(a, b) == IF a < b THEN a ELSE b

\* Math.round(num / den) for den > 0: floor(x + 1/2)
MathRound(num, den) == (2 * num + den) \div (2 * den)

\* x >= n for a JavaScript value x and an integer n (null converts to 0, NaN compares false)
JsGE(x, n) ==
  CASE x.kind = "number" -> x.val >= n
    [] x.kind = "null"   -> 0 >= n
    [] OTHER             -> FALSE

RECURSIVE SumOver(_, _)
SumOver(S, f) ==
  IF S = {} THEN 0
  ELSE LET x == CHOOSE y \in S : TRUE IN f[x] + SumOver(S \ {x}, f)

(***************************************************************************)
(* ProgressManager                                                         *)
(***************************************************************************)
CURRENT_VERSION == "1.0"

KnownModules == {"module1", "module2", "module3", "module4", "module5",
                 "module6", "module7", "module8", "module9", "module10"}

MODULE_TOTAL_SECTIONS ==
  [m \in KnownModules |->
     CASE m \in {"module1", "module2"} -> 10
       [] m = "module5" -> 12
       [] m = "module8" -> 13
       [] OTHER -> 11]

\* MODULE_TOTAL_SECTIONS[moduleId] || 5
totalSectionsOf(moduleId) ==
  IF moduleId \in DOMAIN MODULE_TOTAL_SECTIONS THEN MODULE_TOTAL_SECTIONS[moduleId] ELSE 5

defaultModule ==
  [status |-> "not-started", sectionsCompleted |-> EmptyBag,
   quizScore |-> Null, quizAttempts |-> 0]

createDefault ==
  [version |-> CURRENT_VERSION,
   modules |-> [m \in KnownModules |-> defaultModule],
   overallProgress |-> Num(0)]

getModuleProgress(d, moduleId) ==
  IF moduleId \notin DOMAIN d.modules THEN Num(0)
  ELSE
    LET module == d.modules[moduleId]
        totalSections == totalSectionsOf(moduleId)
        \* sectionProgress = min(length / totalSections, 1) = capped / totalSections
        capped == Min(BagCardinality(module.sectionsCompleted), totalSections)
        q == module.quizScore
    IN  IF q.kind = "NaN" THEN NaN
        ELSE
          LET \* quizProgress = quizPct / 100
              quizPct == IF q.kind = "null" THEN 0
                         ELSE IF q.val >= 70 THEN 100 ELSE q.val
          IN  \* round(capped/total * 70 + quizPct/100 * 30)
              Num(MathRound(capped * 7000 + quizPct * 30 * totalSections,
                            100 * totalSections))

getOverallProgress(d) ==
  LET keys == DOMAIN d.modules
      prog == [m \in keys |-> getModuleProgress(d, m)]
  IN  IF keys = {} THEN Num(0)
      ELSE IF \E m \in keys : prog[m].kind = "NaN" THEN NaN
      ELSE Num(MathRound(SumOver(keys, [m \in keys |-> prog[m].val]), Cardinality(keys)))

\* _checkModuleCompletion that derives the status anew on every call: a module
\* that does not meet both conditions is put back to in-progress
_checkModuleCompletion_Recomputes(d, moduleId) ==
  IF moduleId \notin DOMAIN d.modules THEN d
  ELSE
    LET module == d.modules[moduleId]
        totalSections == totalSectionsOf(moduleId)
        allSectionsDone == BagCardinality(module.sectionsCompleted) >= totalSections
        quizPassed == module.quizScore.kind # "null" /\ JsGE(module.quizScore, 70)
    IN  [d EXCEPT !.modules[moduleId].status =
           IF allSectionsDone /\ quizPassed THEN "completed" ELSE "in-progress"]

_checkModuleCompletion(d, moduleId) ==
  IF moduleId \notin DOMAIN d.modules THEN d
  ELSE
    LET module == d.modules[moduleId]
        totalSections == totalSectionsOf(moduleId)
        allSectionsDone == BagCardinality(module.sectionsCompleted) >= totalSections
        quizPassed == module.quizScore.kind # "null" /\ JsGE(module.quizScore, 70)
    IN  IF allSectionsDone /\ quizPassed
        THEN [d EXCEPT !.modules[moduleId].status = "completed"]
        ELSE d

\* JSON.stringify of a number: NaN is written as null
jsonNumber(x) == IF x.kind = "NaN" THEN Null ELSE x

\* JSON.stringify(this.data), as the document JSON.parse gives back
stringify(d) ==
  [kind |-> "doc",
   version |-> d.version,
   modules |-> [m \in DOMAIN d.modules |->
                  [d.modules[m] EXCEPT !.quizScore = jsonNumber(d.modules[m].quizScore)]],
   overallProgress |-> jsonNumber(d.overallProgress)]

\* A sectionsCompleted value that is not an array (Array.isArray gives false)
NotAnArray == SetToBag({-1})

\* load() without the version check: a document of another version is read
load_KeepsOldVersion(stored) ==
  IF storageThrows \/ stored.kind # "doc" THEN createDefault
  ELSE
    LET repaired(key) ==
          LET module == IF key \in DOMAIN stored.modules
                        THEN stored.modules[key] ELSE defaultModule
          IN  IF key \in KnownModules /\ module.sectionsCompleted = NotAnArray
              THEN [module EXCEPT !.sectionsCompleted = EmptyBag]
              ELSE module
    IN  [version |-> stored.version,
         modules |-> [key \in DOMAIN stored.modules \cup KnownModules |-> repaired(key)],
         overallProgress |-> stored.overallProgress]

\* load() that gives up on a record with a gap instead of repairing it
load_DiscardsOnGap(stored) ==
  IF storageThrows \/ stored.kind # "doc" THEN createDefault
  ELSE IF stored.version # CURRENT_VERSION THEN createDefault
  ELSE IF \E key \in KnownModules :
             \/ key \notin DOMAIN stored.modules
             \/ stored.modules[key].sectionsCompleted = NotAnArray
  THEN createDefault
  ELSE [version |-> stored.version, modules |-> stored.modules,
        overallProgress |-> stored.overallProgress]

\* load(): what the constructor makes of localStorage
load(stored) ==
  IF storageThrows \/ stored.kind # "doc" THEN createDefault
  ELSE IF stored.version # CURRENT_VERSION THEN createDefault
  ELSE
    LET repaired(key) ==
          LET module == IF key \in DOMAIN stored.modules
                        THEN stored.modules[key] ELSE defaultModule
          IN  IF key \in KnownModules /\ module.sectionsCompleted = NotAnArray
              THEN [module EXCEPT !.sectionsCompleted = EmptyBag]
              ELSE module
    IN  [version |-> stored.version,
         modules |-> [key \in DOMAIN stored.modules \cup KnownModules |-> repaired(key)],
         overallProgress |-> stored.overallProgress]

(***************************************************************************)
(* The store's operations, on pm = [data, storage, emitted]: the manager's *)
(* record, localStorage and the events dispatched so far by the handler.   *)
(***************************************************************************)
\* save() that answers a failed write by falling back to the default record
save_ResetsOnThrow(pm) ==
  LET d == [pm.data EXCEPT !.overallProgress = getOverallProgress(pm.data)]
  IN  IF storageThrows THEN [pm EXCEPT !.data = createDefault]
      ELSE [pm EXCEPT !.data = d, !.storage = stringify(d)]

\* save() that merges: a module that is untouched in memory is written as
\* localStorage holds it
save_MergesStored(pm) ==
  LET d == [pm.data EXCEPT !.overallProgress = getOverallProgress(pm.data)]
      kept(m) == IF /\ pm.storage.kind = "doc"
                    /\ m \in DOMAIN pm.storage.modules
                    /\ d.modules[m] = defaultModule
                 THEN pm.storage.modules[m] ELSE d.modules[m]
      merged == [d EXCEPT !.modules = [m \in DOMAIN d.modules |-> kept(m)]]
  IN  [pm EXCEPT !.data = d,
                 !.storage = IF storageThrows THEN @ ELSE stringify(merged)]

save(pm) ==
  LET d == [pm.data EXCEPT !.overallProgress = getOverallProgress(pm.data)]
  IN  [pm EXCEPT !.data = d,
                 !.storage = IF storageThrows THEN @ ELSE stringify(d)]

\* _dispatchProgressEvent that dispatches from the try and from the fallback
_dispatchProgressEvent_Twice(pm, moduleId) ==
  LET event == [moduleId |-> moduleId,
                overallProgress |-> getOverallProgress(pm.data),
                moduleProgress |-> IF moduleId # "all"
                                   THEN getModuleProgress(pm.data, moduleId) ELSE Null,
                persisted |-> pm.storage = stringify(pm.data)]
  IN  [pm EXCEPT !.emitted = Append(Append(@, event), event)]

\* (persisted: whether a listener finds this.data in localStorage already)
_dispatchProgressEvent(pm, moduleId) ==
  [pm EXCEPT !.emitted = Append(@,
     [moduleId |-> moduleId,
      overallProgress |-> getOverallProgress(pm.data),
      moduleProgress |-> IF moduleId # "all"
                         THEN getModuleProgress(pm.data, moduleId) ELSE Null,
      persisted |-> pm.storage = stringify(pm.data)])]

\* markSectionComplete without the indexOf test: the id is pushed on every call
markSectionComplete_AlwaysPushes(pm, moduleId, sectionId) ==
  IF moduleId \notin DOMAIN pm.data.modules THEN pm
  ELSE
    LET module == pm.data.modules[moduleId]
        pushed == module.sectionsCompleted (+) SetToBag({sectionId})
        status == IF module.status = "not-started" THEN "in-progress" ELSE module.status
        d == _checkModuleCompletion(
               [pm.data EXCEPT !.modules[moduleId].sectionsCompleted = pushed,
                               !.modules[moduleId].status = status],
               moduleId)
    IN  _dispatchProgressEvent(save([pm EXCEPT !.data = d]), moduleId)

markSectionComplete(pm, moduleId, sectionId) ==
  IF moduleId \notin DOMAIN pm.data.modules THEN pm
  ELSE
    LET module == pm.data.modules[moduleId]
        pushed == IF ~BagIn(sectionId, module.sectionsCompleted)
                  THEN module.sectionsCompleted (+) SetToBag({sectionId})
                  ELSE module.sectionsCompleted
        status == IF module.status = "not-started" THEN "in-progress" ELSE module.status
        d == _checkModuleCompletion(
               [pm.data EXCEPT !.modules[moduleId].sectionsCompleted = pushed,
                               !.modules[moduleId].status = status],
               moduleId)
    IN  _dispatchProgressEvent(save([pm EXCEPT !.data = d]), moduleId)

\* saveQuizScore without the forced completion: a passing score only starts the module
saveQuizScore_NeverCompletes(pm, moduleId, s) ==
  IF moduleId \notin DOMAIN pm.data.modules THEN pm
  ELSE
    LET module == pm.data.modules[moduleId]
        status == IF module.status = "not-started" THEN "in-progress" ELSE module.status
        d == [pm.data EXCEPT !.modules[moduleId].quizScore = s,
                             !.modules[moduleId].quizAttempts = @ + 1,
                             !.modules[moduleId].status = status]
    IN  _dispatchProgressEvent(save([pm EXCEPT !.data = d]), moduleId)

\* saveQuizScore that takes a failing score as the status: a completed module falls back
saveQuizScore_DemotesOnFail(pm, moduleId, s) ==
  IF moduleId \notin DOMAIN pm.data.modules THEN pm
  ELSE
    LET status == IF JsGE(s, 70) THEN "completed" ELSE "in-progress"
        d == [pm.data EXCEPT !.modules[moduleId].quizScore = s,
                             !.modules[moduleId].quizAttempts = @ + 1,
                             !.modules[moduleId].status = status]
    IN  _dispatchProgressEvent(save([pm EXCEPT !.data = d]), moduleId)

saveQuizScore(pm, moduleId, s) ==
  IF moduleId \notin DOMAIN pm.data.modules THEN pm
  ELSE
    LET module == pm.data.modules[moduleId]
        status == IF JsGE(s, 70) THEN "completed"
                  ELSE IF module.status = "not-started" THEN "in-progress"
                  ELSE module.status
        d == [pm.data EXCEPT !.modules[moduleId].quizScore = s,
                             !.modules[moduleId].quizAttempts = @ + 1,
                             !.modules[moduleId].status = status]
    IN  _dispatchProgressEvent(save([pm EXCEPT !.data = d]), moduleId)

\* resetModule that clears the progress but keeps the attempt count
resetModule_KeepsAttempts(pm, moduleId) ==
  IF moduleId \notin DOMAIN pm.data.modules THEN pm
  ELSE _dispatchProgressEvent(
         save([pm EXCEPT !.data.modules[moduleId] =
                 [defaultModule EXCEPT !.quizAttempts =
                                          pm.data.modules[moduleId].quizAttempts]]),
         moduleId)

resetModule(pm, moduleId) ==
  IF moduleId \notin DOMAIN pm.data.modules THEN pm
  ELSE _dispatchProgressEvent(
         save([pm EXCEPT !.data.modules[moduleId] = defaultModule]), moduleId)

resetAll(pm) ==
  _dispatchProgressEvent(save([pm EXCEPT !.data = createDefault]), "all")

\* window.progressManager as the running handler finds it
PM == [data |-> data, storage |-> storage, emitted |-> <<>>]

\* No second tab is open (data: a placeholder)
NoOtherTab == [open |-> FALSE, data |-> createDefault, wroteLast |-> FALSE]

\* This page's handler returns pm: if it wrote localStorage (it dispatched its
\* event and setItem did not throw), the other tab is not the last writer
Overwritten(tab, pm) ==
  [tab EXCEPT !.wroteLast = @ /\ (pm.emitted = <<>> \/ storageThrows)]

(***************************************************************************)
(* QuizEngine.  A method is an operator from the engine as the handler     *)
(* finds it (the record This: the object's fields, the DOM of its          *)
(* container, its pending timers and window.progressManager) to the        *)
(* engine as the handler leaves it.                                        *)
(***************************************************************************)
moduleId == "module1"

NoString   == "null"                \* null in a field that otherwise holds a string
EmptyPairs == [s \in {} |-> ""]     \* {}

\* answers[i] === null
NullAnswer ==
  [isNull |-> TRUE, option |-> NoString, pairs |-> EmptyPairs, correct |-> FALSE]

\* new Array(n).fill(null)
nullAnswers(n) == [i \in 1..n |-> NullAnswer]

\* obj[key], undefined for a key the object does not have
Get(obj, key) == IF key \in DOMAIN obj THEN obj[key] ELSE "undefined"

\* obj[key] = value
Put(obj, key, value) == [k \in DOMAIN obj \cup {key} |-> IF k = key THEN value ELSE obj[k]]

This ==
  [loadState |-> loadState, questions |-> questions, passingScore |-> passingScore,
   currentQuestionIndex |-> currentQuestionIndex, answers |-> answers,
   score |-> score, isComplete |-> isComplete,
   selectedOptionId |-> selectedOptionId, hasChecked |-> hasChecked,
   dragSelectedSource |-> dragSelectedSource, matchedPairs |-> matchedPairs,
   aliased |-> aliased, view |-> view, viewIndex |-> viewIndex,
   srcMatchedEls |-> srcMatchedEls, tgtMatchedEls |-> tgtMatchedEls,
   resultsPanel |-> resultsPanel, timers |-> timers, reports |-> reports,
   pm |-> PM]

\* this.questions[this.currentQuestionIndex]
currentQuestion(w) == w.questions[w.currentQuestionIndex + 1]

\* Math.round((this.score / this.questions.length) * 100); 0 / 0 is NaN
scorePercentOf(w) ==
  IF Len(w.questions) = 0 THEN NaN
  ELSE Num(MathRound(w.score * 100, Len(w.questions)))

showResults(w) ==
  LET scorePercent == scorePercentOf(w)
      isPassing == JsGE(scorePercent, w.passingScore)
  IN  [w EXCEPT !.pm = saveQuizScore(@, moduleId, scorePercent),
                !.reports = @ + 1,
                !.view = "results",
                !.resultsPanel = [scorePercent |-> scorePercent, isPassing |-> isPassing],
                !.srcMatchedEls = {},
                !.tgtMatchedEls = {}]

\* _initDragMatch: a fresh matchedPairs object, no pending source
_initDragMatch(w) ==
  [w EXCEPT !.matchedPairs = EmptyPairs, !.aliased = -1, !.dragSelectedSource = NoString]

render(w) ==
  IF Len(w.questions) = 0
  THEN [w EXCEPT !.view = "skeleton", !.srcMatchedEls = {}, !.tgtMatchedEls = {}]
  ELSE IF w.isComplete THEN showResults(w)
  ELSE
    LET shown == [w EXCEPT !.view = "question", !.viewIndex = w.currentQuestionIndex,
                           !.srcMatchedEls = {}, !.tgtMatchedEls = {}]
    IN  IF currentQuestion(w).type = "drag-match" THEN _initDragMatch(shown) ELSE shown

\* The callbacks handed to _animateOut
runCallback(w, callback) == IF callback = "showResults" THEN showResults(w) ELSE render(w)

\* _animateOut: without a .quiz-body the callback runs at once, else after 130 ms
_animateOut(w, callback) ==
  IF w.view # "question" THEN runCallback(w, callback)
  ELSE [w EXCEPT !.timers = Append(@, callback)]

selectOption(w, optionId) ==
  IF w.hasChecked THEN w ELSE [w EXCEPT !.selectedOptionId = optionId]

_checkDragMatch(w, question) ==
  \A sourceId \in DOMAIN question.correctPairs :
     Get(w.matchedPairs, sourceId) = question.correctPairs[sourceId]

\* checkAnswer without the hasChecked test: a checked question is judged again
checkAnswer_Rechecks(w) ==
  IF Len(w.questions) = 0 THEN w    \* question is undefined: question.type throws
  ELSE
    LET question == currentQuestion(w)
        isCorrect ==
          CASE question.type = "drag-match" -> _checkDragMatch(w, question)
            [] question.type = "true-false" ->
                 \* selectedBool === question.correctAnswer (a boolean, written as text)
                 (w.selectedOptionId = "true") = (question.correctAnswer = "true")
            [] OTHER -> w.selectedOptionId = question.correctAnswer
        answer ==
          IF question.type = "drag-match"
          THEN [isNull |-> FALSE, option |-> NoString, pairs |-> w.matchedPairs,
                correct |-> isCorrect]
          ELSE [isNull |-> FALSE, option |-> w.selectedOptionId, pairs |-> EmptyPairs,
                correct |-> isCorrect]
    IN  [w EXCEPT !.hasChecked = TRUE,
                  !.answers[w.currentQuestionIndex + 1] = answer,
                  !.aliased = IF question.type = "drag-match"
                              THEN w.currentQuestionIndex ELSE @,
                  !.score = IF isCorrect THEN @ + 1 ELSE @]

checkAnswer(w) ==
  IF w.hasChecked THEN w
  ELSE IF Len(w.questions) = 0 THEN w    \* question is undefined: question.type throws
  ELSE
    LET question == currentQuestion(w)
        isCorrect ==
          CASE question.type = "drag-match" -> _checkDragMatch(w, question)
            [] question.type = "true-false" ->
                 \* selectedBool === question.correctAnswer (a boolean, written as text)
                 (w.selectedOptionId = "true") = (question.correctAnswer = "true")
            [] OTHER -> w.selectedOptionId = question.correctAnswer
        answer ==
          IF question.type = "drag-match"
          THEN [isNull |-> FALSE, option |-> NoString, pairs |-> w.matchedPairs,
                correct |-> isCorrect]
          ELSE [isNull |-> FALSE, option |-> w.selectedOptionId, pairs |-> EmptyPairs,
                correct |-> isCorrect]
    IN  [w EXCEPT !.hasChecked = TRUE,
                  !.answers[w.currentQuestionIndex + 1] = answer,
                  !.aliased = IF question.type = "drag-match"
                              THEN w.currentQuestionIndex ELSE @,
                  !.score = IF isCorrect THEN @ + 1 ELSE @]

\* nextQuestion that steps past the last question when it completes the quiz
nextQuestion_StepsPastLast(w) ==
  IF w.currentQuestionIndex >= Len(w.questions) - 1
  THEN _animateOut([w EXCEPT !.isComplete = TRUE, !.currentQuestionIndex = @ + 1],
                   "showResults")
  ELSE _animateOut([w EXCEPT !.currentQuestionIndex = @ + 1,
                             !.selectedOptionId = NoString,
                             !.hasChecked = FALSE,
                             !.dragSelectedSource = NoString,
                             !.matchedPairs = EmptyPairs,
                             !.aliased = -1],
                   "render")

nextQuestion(w) ==
  IF w.currentQuestionIndex >= Len(w.questions) - 1
  THEN _animateOut([w EXCEPT !.isComplete = TRUE], "showResults")
  ELSE _animateOut([w EXCEPT !.currentQuestionIndex = @ + 1,
                             !.selectedOptionId = NoString,
                             !.hasChecked = FALSE,
                             !.dragSelectedSource = NoString,
                             !.matchedPairs = EmptyPairs,
                             !.aliased = -1],
                   "render")

\* retry that starts the pass over but leaves the recorded answers in place
retry_KeepsAnswers(w) ==
  render([w EXCEPT !.currentQuestionIndex = 0,
                   !.score = 0,
                   !.isComplete = FALSE,
                   !.selectedOptionId = NoString,
                   !.hasChecked = FALSE,
                   !.dragSelectedSource = NoString,
                   !.matchedPairs = EmptyPairs,
                   !.aliased = -1,
                   !.reports = 0])

retry(w) ==
  render([w EXCEPT !.currentQuestionIndex = 0,
                   !.answers = nullAnswers(Len(w.questions)),
                   !.score = 0,
                   !.isComplete = FALSE,
                   !.selectedOptionId = NoString,
                   !.hasChecked = FALSE,
                   !.dragSelectedSource = NoString,
                   !.matchedPairs = EmptyPairs,
                   !.aliased = -1,
                   !.reports = 0])

\* self.matchedPairs[sourceId] = targetId, on the object an answer may share
recordMatch(w, sourceId, targetId) ==
  LET pairs == Put(w.matchedPairs, sourceId, targetId)
  IN  [w EXCEPT !.matchedPairs = pairs,
                !.answers = IF w.aliased >= 0
                            THEN [@ EXCEPT ![w.aliased + 1].pairs = pairs] ELSE @]

\* Draggable onDragEnd of source sourceId released over drop zone targetId (the
\* is-matched classes it adds are read by the click-to-match handlers only,
\* which this mode does not bind)
onDragEnd(w, sourceId, targetId) == recordMatch(w, sourceId, targetId)

\* click on a .drag-item (click-to-match)
sourceClick(w, sourceId) ==
  IF w.hasChecked \/ sourceId \in w.srcMatchedEls THEN w
  ELSE [w EXCEPT !.dragSelectedSource = sourceId]

\* click on a .drop-zone (click-to-match)
targetClick(w, targetId) ==
  IF w.hasChecked \/ w.dragSelectedSource = NoString \/ targetId \in w.tgtMatchedEls
  THEN w
  ELSE [recordMatch(w, w.dragSelectedSource, targetId)
          EXCEPT !.srcMatchedEls = @ \cup {w.dragSelectedSource},
                 !.tgtMatchedEls = @ \cup {targetId},
                 !.dragSelectedSource = NoString]

\* moduleData.passingScore || 70
passingScoreOf(moduleData) ==
  IF moduleData.declaresPassingScore /\ moduleData.passingScore # 0
  THEN moduleData.passingScore ELSE 70

\* The fetch settles: the .then handler, or .catch with _renderError
fetchSettled(w, fetched) ==
  IF fetched.kind = "found"
  THEN render([w EXCEPT !.loadState = "loaded",
                        !.questions = fetched.questions,
                        !.passingScore = passingScoreOf(fetched),
                        !.answers = nullAnswers(Len(fetched.questions)),
                        !.reports = 0])
  ELSE [w EXCEPT !.loadState = "failed", !.view = "error",
                 !.srcMatchedEls = {}, !.tgtMatchedEls = {}]

(***************************************************************************)
(* Inputs.  Question sets the question bank may hold for moduleId (a       *)
(* boolean correctAnswer is written "true" / "false"), and the arguments   *)
(* offered to the operations.                                              *)
(***************************************************************************)
Sources == {"s1", "s2"}
Targets == {"t1", "t2"}

MC(correct) ==
  [type |-> "multiple-choice", correctAnswer |-> correct,
   sources |-> {}, targets |-> {}, correctPairs |-> EmptyPairs]
TF(correct) ==
  [type |-> "true-false", correctAnswer |-> IF correct THEN "true" ELSE "false",
   sources |-> {}, targets |-> {}, correctPairs |-> EmptyPairs]
DM(correctPairs) ==
  [type |-> "drag-match", correctAnswer |-> "undefined",
   sources |-> Sources, targets |-> Targets, correctPairs |-> correctPairs]

TotalPairs   == [s \in Sources |-> IF s = "s1" THEN "t1" ELSE "t2"]
PartialPairs == [s \in {"s1"} |-> "t1"]

Found(qs, declares, threshold) ==
  [kind |-> "found", questions |-> qs,
   declaresPassingScore |-> declares, passingScore |-> threshold]
NotFound   == [Found(<<>>, FALSE, 0) EXCEPT !.kind = "notFound"]
FetchError == [Found(<<>>, FALSE, 0) EXCEPT !.kind = "fetchError"]

QuizBank ==
  { Found(<<MC("a"), MC("b")>>, TRUE, 50),
    Found(<<TF(FALSE)>>, FALSE, 0),
    Found(<<DM(TotalPairs)>>, TRUE, 50),
    Found(<<DM(PartialPairs)>>, TRUE, 0),
    NotFound, FetchError }

hasDragMatch(fetched) ==
  \E i \in 1..Len(fetched.questions) : fetched.questions[i].type = "drag-match"

\* The ids of the .quiz-option elements render puts into the DOM for a question
optionsOf(question) ==
  CASE question.type = "multiple-choice" -> {"a", "b"}
    [] question.type = "true-false" -> {"true", "false"}
    [] OTHER -> {}

Scores == {-50, 40, 85}
FirstSection == 9     \* the stored progress document has the sections before it
SectionInputs ==
  ({"module1"} \X (FirstSection..MaxSection)) \cup {<<"module3", 1>>, <<"moduleX", 1>>}
ScoreInputs == ({"module1"} \X Scores) \cup {<<"module3", 85>>, <<"moduleX", 85>>}
ResetInputs == {"module1", "module3", "moduleX"}

\* A version-matching document that also holds a module this version does not know
ExtraModuleDoc ==
  LET d == stringify(createDefault)
      extra == [status |-> "completed", sectionsCompleted |-> SetToBag(1..5),
                quizScore |-> Num(100), quizAttempts |-> 1]
  IN  [d EXCEPT !.modules = [m \in KnownModules \cup {"module11"} |->
                               IF m \in KnownModules THEN d.modules[m] ELSE extra],
                !.overallProgress = Num(9)]

\* A document an earlier page load has written: module1 read up to FirstSection - 1
ProgressDoc ==
  LET d == createDefault
      read == [d EXCEPT !.modules["module1"].status = "in-progress",
                        !.modules["module1"].sectionsCompleted =
                           SetToBag(1..(FirstSection - 1))]
  IN  stringify([read EXCEPT !.overallProgress = getOverallProgress(read)])

StorageAbsent ==
  [kind |-> "absent", version |-> "", modules |-> <<>>, overallProgress |-> Null]

InitialDocs == {StorageAbsent, ProgressDoc, ExtraModuleDoc}

(***************************************************************************)
(* Initial states: the page after autoInit (container set, skeleton shown, *)
(* fetch pending) and the ProgressManager constructed by load().           *)
(***************************************************************************)
EngineConstructed ==
  /\ loadState = "pending"
  /\ questions = <<>>
  /\ passingScore = 70
  /\ currentQuestionIndex = 0
  /\ answers = <<>>
  /\ score = 0
  /\ isComplete = FALSE
  /\ selectedOptionId = NoString
  /\ hasChecked = FALSE
  /\ dragSelectedSource = NoString
  /\ matchedPairs = EmptyPairs
  /\ aliased = -1
  /\ view = "skeleton"
  /\ viewIndex = 0
  /\ srcMatchedEls = {}
  /\ tgtMatchedEls = {}
  /\ resultsPanel = [scorePercent |-> Null, isPassing |-> FALSE]
  /\ timers = <<>>
  /\ reports = 0

Init ==
  /\ storageThrows = FALSE
  /\ storage = StorageAbsent
  /\ data = load(storage)
  /\ emitted = <<>>
  /\ otherTab = NoOtherTab
  /\ bank \in QuizBank
  /\ gsapDrag \in (IF hasDragMatch(bank) THEN BOOLEAN ELSE {FALSE})
  /\ EngineConstructed

\* The handler returns: the engine and the store are as it left them
Commit(w) ==
  /\ Len(w.timers) <= MaxTimers
  /\ w.pm.data.modules[moduleId].quizAttempts <= MaxReports
  /\ loadState' = w.loadState
  /\ questions' = w.questions
  /\ passingScore' = w.passingScore
  /\ currentQuestionIndex' = w.currentQuestionIndex
  /\ answers' = w.answers
  /\ score' = w.score
  /\ isComplete' = w.isComplete
  /\ selectedOptionId' = w.selectedOptionId
  /\ hasChecked' = w.hasChecked
  /\ dragSelectedSource' = w.dragSelectedSource
  /\ matchedPairs' = w.matchedPairs
  /\ aliased' = w.aliased
  /\ view' = w.view
  /\ viewIndex' = w.viewIndex
  /\ srcMatchedEls' = w.srcMatchedEls
  /\ tgtMatchedEls' = w.tgtMatchedEls
  /\ resultsPanel' = w.resultsPanel
  /\ timers' = w.timers
  /\ reports' = w.reports
  /\ data' = w.pm.data
  /\ storage' = w.pm.storage
  /\ emitted' = w.pm.emitted
  /\ otherTab' = Overwritten(otherTab, w.pm)
  /\ UNCHANGED <<storageThrows, bank, gsapDrag>>

\* The question whose DOM is in the container
viewedQuestion == questions[viewIndex + 1]
DragMatchShown == view = "question" /\ viewedQuestion.type = "drag-match"

\* The engine's public methods are callable in every state (/\ TRUE: no guard)
FetchSettles ==
  /\ loadState = "pending"
  /\ Commit(fetchSettled(This, bank))
\* A click on a rendered option, or a call of selectOption when none is rendered
SelectOption ==
  \E optionId \in (IF view = "question" /\ optionsOf(viewedQuestion) # {}
                   THEN optionsOf(viewedQuestion) ELSE {"a"}) :
     Commit(selectOption(This, optionId))
CheckAnswer ==
  /\ TRUE
  /\ Commit(checkAnswer(This))
NextQuestion ==
  /\ TRUE
  /\ Commit(nextQuestion(This))
Retry ==
  /\ TRUE
  /\ Commit(retry(This))
Render ==
  /\ TRUE
  /\ Commit(render(This))
TimerFires ==
  /\ timers # <<>>
  /\ Commit(runCallback([This EXCEPT !.timers = Tail(@)], Head(timers)))
DragEnd ==
  /\ DragMatchShown /\ gsapDrag
  /\ \E sourceId \in viewedQuestion.sources, targetId \in viewedQuestion.targets :
        Commit(onDragEnd(This, sourceId, targetId))
SourceClick ==
  /\ DragMatchShown /\ ~gsapDrag
  /\ \E sourceId \in viewedQuestion.sources : Commit(sourceClick(This, sourceId))
TargetClick ==
  /\ DragMatchShown /\ ~gsapDrag
  /\ \E targetId \in viewedQuestion.targets : Commit(targetClick(This, targetId))

Next ==
  \/ FetchSettles
  \/ SelectOption
  \/ CheckAnswer
  \/ NextQuestion
  \/ Retry
  \/ Render
  \/ TimerFires
  \/ DragEnd
  \/ SourceClick
  \/ TargetClick

Spec == Init /\ [][Next]_vars

(***************************************************************************)
(* The store alone: a page without a quiz, whose collaborators call the    *)
(* store's operations.                                                     *)
(***************************************************************************)
StoreInit ==
  /\ storageThrows = FALSE
  /\ storage \in InitialDocs
  /\ data = load(storage)
  /\ emitted = <<>>
  /\ otherTab = NoOtherTab
  /\ bank = NotFound
  /\ gsapDrag = FALSE
  /\ EngineConstructed

StoreCommit(pm) ==
  /\ data' = pm.data
  /\ storage' = pm.storage
  /\ emitted' = pm.emitted
  /\ otherTab' = Overwritten(otherTab, pm)
  /\ UNCHANGED <<storageThrows, engineVars>>

attemptsOf(m) == IF m \in DOMAIN data.modules THEN data.modules[m].quizAttempts ELSE 0

MarkSectionComplete ==
  /\ TRUE
  /\ \E in \in SectionInputs : StoreCommit(markSectionComplete(PM, in[1], in[2]))
SaveQuizScore ==
  \E in \in ScoreInputs :
     /\ attemptsOf(in[1]) < MaxAttempts
     /\ StoreCommit(saveQuizScore(PM, in[1], Num(in[2])))
ResetModule ==
  /\ TRUE
  /\ \E m \in ResetInputs : StoreCommit(resetModule(PM, m))
ResetAll ==
  /\ TRUE
  /\ StoreCommit(resetAll(PM))

StoreNext ==
  \/ MarkSectionComplete
  \/ SaveQuizScore
  \/ ResetModule
  \/ ResetAll

StoreSpec == StoreInit /\ [][StoreNext]_vars

(***************************************************************************)
(* Claims about the quiz engine (specification Spec)                       *)
(***************************************************************************)
Loaded == loadState = "loaded"

\* A question is on screen, unchecked, and it is the engine's current question
Presenting ==
  /\ Loaded /\ ~isComplete /\ ~hasChecked
  /\ view = "question" /\ viewIndex = currentQuestionIndex

\* The selection checkAnswer is meant to wait for
SelectionComplete ==
  IF currentQuestion(This).type = "drag-match"
  THEN currentQuestion(This).sources \subseteq DOMAIN matchedPairs
  ELSE selectedOptionId # NoString

\* The answers recorded correct in this pass
CorrectCount == Cardinality({i \in DOMAIN answers : ~answers[i].isNull /\ answers[i].correct})

\* The threshold the module declares, 70 when it declares none
DeclaredThreshold == IF bank.declaresPassingScore THEN bank.passingScore ELSE 70

\* C1: in every pass through the questions (from the load, or from a retry, up
\* to the results) the engine calls saveQuizScore exactly once: never more than
\* once, and once when the results are on screen.
C1_ReportsOncePerPass ==
  Loaded => /\ reports <= 1
            /\ view = "results" => reports = 1

\* C2: checkAnswer on a presenting question whose selection is not complete
\* records no Answer and leaves the score and the checked flag as they were.
C2_CheckWithoutSelectionIsNoOp ==
  [][(Presenting /\ ~SelectionComplete /\ CheckAnswer)
       => UNCHANGED <<answers, score, hasChecked>>]_vars

\* C3: nextQuestion invoked while the current question is unchecked changes
\* neither the question index nor the completion flag.
C3_NextOnlyWhenChecked ==
  [][(Loaded /\ ~isComplete /\ ~hasChecked /\ NextQuestion)
       => UNCHANGED <<currentQuestionIndex, isComplete>>]_vars

\* C4: checkAnswer on a drag-match question records the answer correct if and
\* only if matchedPairs equals the question's correct mapping entry for entry.
C4_DragMatchCorrectIffEqual ==
  [][(Presenting /\ currentQuestion(This).type = "drag-match" /\ CheckAnswer)
       => (answers'[currentQuestionIndex + 1].correct
             <=> matchedPairs = currentQuestion(This).correctPairs)]_vars

\* C5: when the results are shown after a pass with c of n questions correct,
\* the percentage shown and reported is round(c / n x 100), and the pass is
\* judged passing iff that percentage >= the threshold the module declares
\* (70 when it declares none).
C5_ScoreAndVerdict ==
  [][(Loaded /\ (\A i \in DOMAIN answers : ~answers[i].isNull) /\ emitted' # <<>>)
       => LET pct == MathRound(CorrectCount' * 100, Len(questions'))
          IN  /\ resultsPanel'.scorePercent = Num(pct)
              /\ data'.modules[moduleId].quizScore = Num(pct)
              /\ resultsPanel'.isPassing <=> pct >= DeclaredThreshold]_vars

\* C6: a recorded Answer keeps its payload and its correctness flag in every
\* step, except that a retry clears it.
C6_AnswersImmutable ==
  [][\A i \in DOMAIN answers :
        ~answers[i].isNull => (answers'[i] = answers[i] \/ answers'[i].isNull)]_vars

(***************************************************************************)
(* Claims about the store (specification StoreSpec)                        *)
(***************************************************************************)
sectionCount(m) == BagCardinality(data.modules[m].sectionsCompleted)
Passed(m) == data.modules[m].quizScore.kind = "number" /\ data.modules[m].quizScore.val >= 70

\* C7: whenever a module's completed-section count has reached its total and
\* its latest quiz score is >= 70, its status is completed.
C7_BothConditionsComplete ==
  \A m \in DOMAIN data.modules :
     (sectionCount(m) >= totalSectionsOf(m) /\ Passed(m))
        => data.modules[m].status = "completed"

\* C7 witness: module1 has all its sections and a passing score, after marks and a save
C7_Witness ==
  /\ sectionCount("module1") = MODULE_TOTAL_SECTIONS["module1"]
  /\ data.modules["module1"].quizScore = Num(85)
  /\ data.modules["module1"].quizAttempts = 1
  /\ data.modules["module1"].status = "completed"

\* C8: saveQuizScore(m, s) on a known module sets the score to s, adds one to
\* the attempt count, sets the status to completed if s >= 70 and otherwise
\* only promotes not-started to in-progress; the sections of m and the record
\* of every other module stay as they were.
C8_SaveQuizScoreEffect ==
  [][\A in \in ScoreInputs :
        (in[1] \in DOMAIN data.modules /\ StoreCommit(saveQuizScore(PM, in[1], Num(in[2]))))
          => LET m == in[1]
                 s == in[2]
                 before == data.modules[m]
                 after == data'.modules[m]
             IN  /\ after.quizScore = Num(s)
                 /\ after.quizAttempts = before.quizAttempts + 1
                 /\ after.status = IF s >= 70 THEN "completed"
                                   ELSE IF before.status = "not-started"
                                        THEN "in-progress" ELSE before.status
                 /\ after.sectionsCompleted = before.sectionsCompleted
                 /\ DOMAIN data'.modules = DOMAIN data.modules
                 /\ \A o \in DOMAIN data.modules \ {m} :
                       data'.modules[o] = data.modules[o]]_vars

\* C8 witness: a second, failing score was saved on a module completed by the first
C8_Witness ==
  /\ data.modules["module1"].quizScore = Num(40)
  /\ data.modules["module1"].quizAttempts = 2
  /\ data.modules["module1"].status = "completed"
  /\ data.modules["module3"].quizAttempts = 1

\* C9: getModuleProgress of every known module lies in 0..100 and equals
\* round(70 x min(sections / total, 1) + 30 x q), q = 1 for a score >= 70,
\* score / 100 for a lower score, 0 without a score.
C9_ModuleProgressRange ==
  \A m \in KnownModules :
     LET total == MODULE_TOTAL_SECTIONS[m]
         done == Min(sectionCount(m), total)
         q100 == IF data.modules[m].quizScore.kind = "null" THEN 0
                 ELSE IF Passed(m) THEN 100 ELSE data.modules[m].quizScore.val
         p == getModuleProgress(data, m)
     IN  /\ p.kind = "number"
         /\ p.val \in 0..100
         /\ p.val = MathRound(7000 * done + 30 * q100 * total, 100 * total)

\* C10: getOverallProgress is the mean of getModuleProgress over the known
\* modules module1..module10, rounded to the nearest integer.
C10_OverallIsMeanOfKnown ==
  getOverallProgress(data) =
    Num(MathRound(SumOver(KnownModules,
                          [m \in KnownModules |-> getModuleProgress(data, m).val]),
                  Cardinality(KnownModules)))

\* The stored document holds the record d: the same modules with the same
\* status, score, attempt count and sections, and the overall progress of d
Equivalent(stored, d) ==
  /\ stored.kind = "doc"
  /\ DOMAIN stored.modules = DOMAIN d.modules
  /\ \A m \in DOMAIN d.modules : stored.modules[m] = d.modules[m]
  /\ stored.overallProgress = getOverallProgress(d)

\* C11: after every mutating store operation (a step that dispatched its
\* notification) the document in localStorage is equivalent to the in-memory
\* record and its overallProgress equals getOverallProgress().
C11_StorageMatchesMemory ==
  [][(~storageThrows /\ emitted' # <<>>) => Equivalent(storage', data')]_vars

\* C12: save() followed by load() gives back the modules of the saved record
\* (status, score, attempt count and sections of every module).
C12_SaveLoadRoundTrip ==
  LET saved == save(PM)
      loaded == load(saved.storage)
  IN  /\ DOMAIN loaded.modules = DOMAIN saved.data.modules
      /\ \A m \in DOMAIN saved.data.modules : loaded.modules[m] = saved.data.modules[m]

(***************************************************************************)
(* Page loads over what localStorage may hold: the store is constructed by *)
(* load() from any of these documents, operated, and constructed again by  *)
(* the next page load.                                                     *)
(***************************************************************************)
\* A value JSON.parse throws on
StorageCorrupt == [StorageAbsent EXCEPT !.kind = "corrupt"]

\* What an earlier session left: module1 passed, module3 begun
EarlierRecord ==
  [createDefault EXCEPT !.modules["module1"] =
                           [status |-> "completed", sectionsCompleted |-> SetToBag(1..2),
                            quizScore |-> Num(85), quizAttempts |-> 1],
                        !.modules["module3"] =
                           [status |-> "in-progress", sectionsCompleted |-> SetToBag({1}),
                            quizScore |-> Num(40), quizAttempts |-> 1]]

\* That record written by another version of the schema, and without a version
OldVersionDoc == [stringify(EarlierRecord) EXCEPT !.version = "0.9"]
NoVersionDoc  == [stringify(EarlierRecord) EXCEPT !.version = "undefined"]

\* That record, version-matching, without an entry for module2 and with a
\* sectionsCompleted of module1 that is not an array
GapDoc ==
  LET d == stringify(EarlierRecord)
  IN  [d EXCEPT !.modules = [key \in KnownModules \ {"module2"} |->
                               IF key = "module1"
                               THEN [d.modules[key] EXCEPT !.sectionsCompleted = NotAnArray]
                               ELSE d.modules[key]]]

\* That record, version-matching, with section 1 of module3 listed twice
DuplicateDoc ==
  [stringify(EarlierRecord) EXCEPT
     !.modules["module3"].sectionsCompleted = SetToBag({1}) (+) SetToBag({1})]

PersistedDocs ==
  {StorageAbsent, StorageCorrupt, OldVersionDoc, NoVersionDoc, GapDoc, DuplicateDoc}

LoadInit ==
  /\ storageThrows = FALSE
  /\ storage \in PersistedDocs
  /\ data = load(storage)
  /\ emitted = <<>>
  /\ otherTab = NoOtherTab
  /\ bank = NotFound
  /\ gsapDrag = FALSE
  /\ EngineConstructed

\* The next page load: new ProgressManager() reads localStorage again
Reload ==
  /\ TRUE
  /\ StoreCommit([data |-> load(storage), storage |-> storage, emitted |-> <<>>])

LoadNext ==
  \/ StoreNext
  \/ Reload

LoadSpec == LoadInit /\ [][LoadNext]_vars

(***************************************************************************)
(* Claims about load() (specification LoadSpec)                            *)
(***************************************************************************)
\* localStorage holds nothing load() accepts: no document, an unparseable
\* one, or one whose version is missing or is not CURRENT_VERSION
Unreadable(stored) == stored.kind # "doc" \/ stored.version # CURRENT_VERSION

\* C13: load() of an absent or unparseable document, or of one whose version
\* is missing or differs, is createDefault(): the store constructed from it
\* holds the default record and nothing of the stored content.
C13_LoadFallsBackToDefault ==
  Unreadable(storage) => /\ load(storage) = createDefault
                         /\ data = createDefault

\* C13 witness: the store constructed over a document of another version
C13_Witness ==
  /\ storage = OldVersionDoc
  /\ storage.modules["module1"].status = "completed"
  /\ data.modules["module1"] = defaultModule

C16_NoDuplicateSections ==
  \A m \in DOMAIN data.modules :
     \A s \in BagToSet(data.modules[m].sectionsCompleted) :
        CopiesIn(s, data.modules[m].sectionsCompleted) = 1

(***************************************************************************)
(* Claims about the store's operations                                     *)
(***************************************************************************)
\* C15: markSectionComplete(m, s) called twice on a known module leaves the
\* modules (sections, status, score, attempts) as calling it once does.
C15_MarkSectionIdempotent ==
  \A in \in SectionInputs :
     LET once  == markSectionComplete(PM, in[1], in[2])
         twice == markSectionComplete([once EXCEPT !.emitted = <<>>], in[1], in[2])
     IN  in[1] \in KnownModules => twice.data.modules = once.data.modules

\* C15 witness: module1 after markSectionComplete("module1", FirstSection),
\* where the same call again finds the section recorded
C15_Witness ==
  /\ emitted # <<>>
  /\ emitted[1].moduleId = "module1"
  /\ BagIn(FirstSection, data.modules["module1"].sectionsCompleted)
  /\ markSectionComplete(PM, "module1", FirstSection).data = data

\* C17: resetModule(m) on a known module makes m's record the default one and
\* leaves every other module's record as it was; resetAll makes every known
\* module's record the default one.
C17_ResetRestoresDefault ==
  [][/\ \A m \in ResetInputs :
          (m \in DOMAIN data.modules /\ StoreCommit(resetModule(PM, m)))
            => /\ data'.modules[m] = defaultModule
               /\ DOMAIN data'.modules = DOMAIN data.modules
               /\ \A o \in DOMAIN data.modules \ {m} : data'.modules[o] = data.modules[o]
     /\ StoreCommit(resetAll(PM))
          => \A m \in KnownModules : data'.modules[m] = defaultModule]_vars

\* C17 witness: module1 was reset while module3 keeps its score and attempt
C17_Witness ==
  /\ emitted # <<>>
  /\ emitted[1].moduleId = "module1"
  /\ data.modules["module1"] = defaultModule
  /\ data.modules["module3"].quizScore = Num(85)
  /\ data.modules["module3"].quizAttempts = 1

\* The handler of this step dispatched one progressUpdated event, for id, with
\* the overall progress of the record it leaves, the record being in
\* localStorage when it was dispatched
OneEvent(id) ==
  /\ Len(emitted') = 1
  /\ emitted'[1].moduleId = id
  /\ emitted'[1].overallProgress = getOverallProgress(data')
  /\ emitted'[1].persisted

\* C18: markSectionComplete, saveQuizScore and resetModule on a known module
\* and resetAll each dispatch exactly one event, after the write, carrying
\* the module id (or "all") and the overall progress of the new state; on an
\* unknown module, and in a page load, no event is dispatched.
C18_OneNotificationPerMutation ==
  [][/\ \A in \in SectionInputs :
          StoreCommit(markSectionComplete(PM, in[1], in[2]))
            => IF in[1] \in DOMAIN data.modules THEN OneEvent(in[1]) ELSE emitted' = <<>>
     /\ \A in \in ScoreInputs :
          StoreCommit(saveQuizScore(PM, in[1], Num(in[2])))
            => IF in[1] \in DOMAIN data.modules THEN OneEvent(in[1]) ELSE emitted' = <<>>
     /\ \A m \in ResetInputs :
          StoreCommit(resetModule(PM, m))
            => IF m \in DOMAIN data.modules THEN OneEvent(m) ELSE emitted' = <<>>
     /\ StoreCommit(resetAll(PM)) => OneEvent("all")
     /\ Reload => emitted' = <<>>]_vars

\* C18 witness: the event of a saveQuizScore("module3", 85)
C18_Witness ==
  /\ Len(emitted) = 1
  /\ emitted[1].moduleId = "module3"
  /\ emitted[1].persisted
  /\ data.modules["module3"].quizScore = Num(85)
  /\ data.modules["module3"].quizAttempts = 2

(***************************************************************************)
(* A session in which localStorage stops working: from then on getItem and *)
(* setItem throw (storage disabled, quota exhausted).                      *)
(***************************************************************************)
\* The environment: localStorage starts to throw, before the page's first write
StorageBreaks ==
  /\ ~storageThrows
  /\ storage \in InitialDocs
  /\ storageThrows' = TRUE
  /\ UNCHANGED <<data, storage, emitted, otherTab, engineVars>>

FailNext ==
  \/ StoreNext
  \/ Reload
  \/ StorageBreaks

FailSpec == StoreInit /\ [][FailNext]_vars

\* The operation that returns r ran to its end without writing: localStorage
\* is as it was and one event was dispatched, for id, with the overall
\* progress of the record r leaves in memory
RanInMemory(r, id) ==
  /\ r.storage = storage
  /\ Len(r.emitted) = 1
  /\ r.emitted[1].moduleId = id
  /\ r.emitted[1].overallProgress = getOverallProgress(r.data)

\* C19: while localStorage throws, load() gives the default record, and every
\* mutating operation runs to its end: localStorage is untouched, the mutation
\* is in the in-memory record and the event is dispatched.
C19_StorageFailureKeepsMemory ==
  storageThrows =>
    /\ load(storage) = createDefault
    /\ \A in \in SectionInputs :
         in[1] \in DOMAIN data.modules =>
           LET r == markSectionComplete(PM, in[1], in[2])
           IN  /\ BagIn(in[2], r.data.modules[in[1]].sectionsCompleted)
               /\ r.data.modules[in[1]].status # "not-started"
               /\ RanInMemory(r, in[1])
    /\ \A in \in ScoreInputs :
         in[1] \in DOMAIN data.modules =>
           LET r == saveQuizScore(PM, in[1], Num(in[2]))
           IN  /\ r.data.modules[in[1]].quizScore = Num(in[2])
               /\ r.data.modules[in[1]].quizAttempts = data.modules[in[1]].quizAttempts + 1
               /\ RanInMemory(r, in[1])
    /\ \A m \in ResetInputs :
         m \in DOMAIN data.modules =>
           LET r == resetModule(PM, m)
           IN  /\ r.data.modules[m] = defaultModule
               /\ RanInMemory(r, m)
    /\ LET r == resetAll(PM)
       IN  /\ \A m \in KnownModules : r.data.modules[m] = defaultModule
           /\ RanInMemory(r, "all")

\* C19 witness: a score saved and a section marked in memory while
\* localStorage, which throws, still holds the document of the page load
C19_Witness ==
  /\ storageThrows
  /\ storage = ProgressDoc
  /\ data.modules["module1"].quizScore = Num(85)
  /\ BagIn(MaxSection, data.modules["module1"].sectionsCompleted)
  /\ Len(emitted) = 1
  /\ ~emitted[1].persisted

(***************************************************************************)
(* Claims about retry (specification Spec)                                 *)
(***************************************************************************)
\* C20: retry invoked while the results are shown leaves question index 0,
\* every answer slot null, score 0, the quiz not complete, no selection, the
\* question unchecked, no matched pair and no pending source, shows the first
\* question of a loaded quiz, and writes nothing to the store.
C20_RetryResetsSession ==
  [][(view = "results" /\ Retry) =>
       /\ currentQuestionIndex' = 0
       /\ answers' = nullAnswers(Len(questions))
       /\ score' = 0
       /\ ~isComplete'
       /\ selectedOptionId' = NoString
       /\ ~hasChecked'
       /\ matchedPairs' = EmptyPairs
       /\ dragSelectedSource' = NoString
       /\ Loaded => (view' = "question" /\ viewIndex' = 0)
       /\ UNCHANGED <<data, storage>>
       /\ emitted' = <<>>]_vars

\* C20 witness: the first question again, nothing answered, after a pass
\* whose score the store holds
C20_Witness ==
  /\ Loaded /\ view = "question" /\ viewIndex = 0
  /\ currentQuestionIndex = 0 /\ score = 0 /\ ~isComplete /\ ~hasChecked
  /\ answers = nullAnswers(Len(questions))
  /\ reports = 0
  /\ data.modules[moduleId].quizScore = Num(100)
  /\ data.modules[moduleId].quizAttempts = 1

\* C21: retry invoked outside the results state (a question is on screen,
\* presenting or checked, the quiz not complete) leaves the question index,
\* the recorded Answers and the score as they were.
C21_RetryOnlyInResults ==
  [][(Loaded /\ ~isComplete /\ view = "question" /\ Retry)
       => UNCHANGED <<currentQuestionIndex, answers, score>>]_vars

(***************************************************************************)
(* Claims about the two pairing modes of a drag-match question             *)
(***************************************************************************)
\* One pairing gesture in click-to-match: a click on the source, then on the target
clickGesture(w, sourceId, targetId) == targetClick(sourceClick(w, sourceId), targetId)

\* C22: on an unchecked drag-match question, from the same pairs matched so
\* far, committing any source to any target (a matched source and a matched
\* target included) leaves the same matchedPairs in click-to-match as in
\* pointer drag-and-drop, and checkAnswer then judges both the same.
C22_PairingModesAgree ==
  (Presenting /\ DragMatchShown /\ ~gsapDrag /\ dragSelectedSource = NoString) =>
    \A sourceId \in viewedQuestion.sources, targetId \in viewedQuestion.targets :
       LET byClick == clickGesture(This, sourceId, targetId)
           byDrag  == onDragEnd(This, sourceId, targetId)
       IN  /\ byClick.matchedPairs = byDrag.matchedPairs
           /\ _checkDragMatch(byClick, viewedQuestion) = _checkDragMatch(byDrag, viewedQuestion)

(***************************************************************************)
(* Claims about the session as a whole (specification Spec)                *)
(***************************************************************************)
\* C23: while the fetch is pending, and after it has failed, selectOption,
\* checkAnswer, nextQuestion, retry and render change neither the question
\* index, the score, the Answers nor the completion flag, and report nothing
\* to the store.
C23_NoEffectUntilLoaded ==
  [][(~Loaded /\ (SelectOption \/ CheckAnswer \/ NextQuestion \/ Retry \/ Render))
       => /\ UNCHANGED <<currentQuestionIndex, score, answers, isComplete>>
          /\ UNCHANGED <<data, storage>>
          /\ emitted' = <<>>]_vars

\* C24: in a session loaded with n >= 1 questions the current question index
\* i satisfies 0 <= i < n in every reachable state.
C24_IndexInRange ==
  (Loaded /\ Len(questions) >= 1)
    => (0 <= currentQuestionIndex /\ currentQuestionIndex < Len(questions))

\* C24 witness: nextQuestion on the last of two questions completed the quiz
\* and left the index on that question
C24_Witness ==
  /\ Loaded /\ Len(questions) = 2
  /\ currentQuestionIndex = 1
  /\ isComplete /\ view = "results"

\* C25: in every reachable state the score equals the number of Answer slots
\* that are non-null and marked correct, and lies between 0 and the number of
\* questions.
C25_ScoreCountsCorrectAnswers ==
  /\ score = CorrectCount
  /\ 0 <= score /\ score <= Len(questions)

\* C25 witness: both questions checked, the first judged correct and the
\* second wrong, and the second checkAnswer call on it already refused
C25_Witness ==
  /\ Loaded /\ Len(questions) = 2 /\ currentQuestionIndex = 1 /\ hasChecked
  /\ ~answers[1].isNull /\ answers[1].correct
  /\ ~answers[2].isNull /\ ~answers[2].correct
  /\ score = 1
  /\ checkAnswer(This) = This

(***************************************************************************)
(* One pass through the quiz: the user selects, pairs, checks and advances *)
(* and never retries, and the browser runs every setTimeout callback that  *)
(* _animateOut schedules.                                                  *)
(***************************************************************************)
\* The user acts on a quiz that has loaded
UserSelects  == Loaded /\ SelectOption
UserChecks   == Loaded /\ CheckAnswer
UserAdvances == Loaded /\ NextQuestion

PassNext ==
  \/ FetchSettles
  \/ UserSelects
  \/ UserChecks
  \/ UserAdvances
  \/ TimerFires
  \/ DragEnd
  \/ SourceClick
  \/ TargetClick

PassSpec ==
  /\ Init
  /\ [][PassNext]_vars
  /\ WF_vars(TimerFires)
  /\ WF_vars(UserSelects)
  /\ WF_vars(UserChecks)
  /\ WF_vars(UserAdvances)

\* The first question of a loaded quiz is presented and nothing is recorded yet
PresentingFirst ==
  /\ Presenting /\ currentQuestionIndex = 0 /\ timers = <<>>
  /\ answers = nullAnswers(Len(questions))

\* The results are on screen
InResults == Loaded /\ view = "results"

\* Every question of the pass has its Answer
AllAnswered == \A i \in DOMAIN answers : ~answers[i].isNull

\* From the first question presented, the results are eventually on screen
\* (the liveness half of C26)
ReachesResults == PresentingFirst ~> InResults

\* C26: once the results of a pass from the first question through all n
\* Answers are on screen, the engine stays there: selectOption, checkAnswer
\* and nextQuestion leave the results on screen and the session and the store
\* unchanged.
C26_ResultsStable ==
  [][(InResults /\ AllAnswered /\ (SelectOption \/ CheckAnswer \/ NextQuestion))
       => /\ view' = "results"
          /\ UNCHANGED <<currentQuestionIndex, answers, score, isComplete>>
          /\ UNCHANGED <<data, storage>>]_vars

(***************************************************************************)
(* Claims about a module's status (specification StoreSpec)                *)
(***************************************************************************)
\* The order the status moves along
statusRank(status) ==
  CASE status = "not-started" -> 0
    [] status = "in-progress" -> 1
    [] status = "completed"   -> 2

\* No module's status is lower in the record after than in the record before
NoRegress(before, after) ==
  /\ DOMAIN after.modules = DOMAIN before.modules
  /\ \A m \in DOMAIN before.modules :
        statusRank(after.modules[m].status) >= statusRank(before.modules[m].status)

\* C28: no markSectionComplete and no saveQuizScore call lowers a module's
\* status along not-started, in-progress, completed; a completed module stays
\* completed when a score below 70 is saved.
C28_StatusNeverRegresses ==
  /\ \A in \in SectionInputs :
        NoRegress(data, markSectionComplete(PM, in[1], in[2]).data)
  /\ \A in \in ScoreInputs :
        NoRegress(data, saveQuizScore(PM, in[1], Num(in[2])).data)
  /\ \A m \in DOMAIN data.modules, s \in Scores :
        (data.modules[m].status = "completed" /\ s < 70)
          => saveQuizScore(PM, m, Num(s)).data.modules[m].status = "completed"

\* C28 witness: module1, completed by a passing score, after a failing score
\* and a further section
C28_Witness ==
  /\ data.modules["module1"].status = "completed"
  /\ data.modules["module1"].quizScore = Num(40)
  /\ data.modules["module1"].quizAttempts = 2
  /\ BagIn(MaxSection, data.modules["module1"].sectionsCompleted)
  /\ emitted # <<>> /\ emitted[1].moduleId = "module1"

\* The record holds nothing of a stored document: it is one the operations
\* reach from createDefault()
FromDefaultRecord ==
  /\ DOMAIN data.modules = KnownModules
  /\ \A n \in 1..(FirstSection - 1) :
        ~BagIn(n, data.modules["module1"].sectionsCompleted)

\* C29: in every record reached from the default record, a module whose
\* status is completed has a latest quiz score that is not null and is >= 70.
C29_CompletedHasPassingScore ==
  FromDefaultRecord =>
    \A m \in DOMAIN data.modules :
       data.modules[m].status = "completed" => Passed(m)

(***************************************************************************)
(* Claims about the engine's verdict and the store (specification Spec)    *)
(***************************************************************************)
\* C30: when the engine reports the score of a pass for a module that is not
\* yet completed, the store sets the module's status to completed if and
\* only if the engine judged the pass as passing.
C30_VerdictMatchesCompletion ==
  [][(Loaded /\ AllAnswered /\ emitted' # <<>>
        /\ data.modules[moduleId].status # "completed")
       => (data'.modules[moduleId].status = "completed" <=> resultsPanel'.isPassing)]_vars

(***************************************************************************)
(* Two tabs of the site: each constructs its own ProgressManager, which    *)
(* loads the record once, and both write the same localStorage key.  No    *)
(* tab listens to the storage event.                                       *)
(***************************************************************************)
TabSectionInputs == {<<"module1", MaxSection>>, <<"module3", 1>>}
TabScoreInputs   == {<<"module1", 85>>, <<"module3", 40>>}

TabsInit ==
  /\ storageThrows = FALSE
  /\ storage \in {StorageAbsent, ProgressDoc}
  /\ data = load(storage)
  /\ emitted = <<>>
  /\ otherTab = NoOtherTab
  /\ bank = NotFound
  /\ gsapDrag = FALSE
  /\ EngineConstructed

\* The second tab is opened: its new ProgressManager() loads the record
OtherTabOpens ==
  /\ ~otherTab.open
  /\ otherTab' = [open |-> TRUE, data |-> load(storage), wroteLast |-> FALSE]
  /\ UNCHANGED <<data, storage, storageThrows, emitted, engineVars>>

\* window.progressManager of the second tab as its handler finds it
OtherPM == [data |-> otherTab.data, storage |-> storage, emitted |-> <<>>]

\* A handler of the second tab returns pm (its event is dispatched in that tab)
OtherCommit(pm) ==
  /\ otherTab.open
  /\ otherTab' = [otherTab EXCEPT !.data = pm.data,
                                  !.wroteLast = @ \/ pm.emitted # <<>>]
  /\ storage' = pm.storage
  /\ UNCHANGED <<data, storageThrows, emitted, engineVars>>

ThisTabMarks ==
  /\ TRUE
  /\ \E in \in TabSectionInputs : StoreCommit(markSectionComplete(PM, in[1], in[2]))
ThisTabSaves ==
  \E in \in TabScoreInputs :
     /\ data.modules[in[1]].quizAttempts < MaxAttempts
     /\ StoreCommit(saveQuizScore(PM, in[1], Num(in[2])))
ThisTabResets ==
  /\ TRUE
  /\ StoreCommit(resetModule(PM, "module1"))
OtherTabMarks ==
  /\ TRUE
  /\ \E in \in TabSectionInputs : OtherCommit(markSectionComplete(OtherPM, in[1], in[2]))
OtherTabSaves ==
  \E in \in TabScoreInputs :
     /\ otherTab.data.modules[in[1]].quizAttempts < MaxAttempts
     /\ OtherCommit(saveQuizScore(OtherPM, in[1], Num(in[2])))
OtherTabResets ==
  /\ TRUE
  /\ OtherCommit(resetModule(OtherPM, "module1"))

TabsNext ==
  \/ OtherTabOpens
  \/ ThisTabMarks
  \/ ThisTabSaves
  \/ ThisTabResets
  \/ OtherTabMarks
  \/ OtherTabSaves
  \/ OtherTabResets

TabsSpec == TabsInit /\ [][TabsNext]_vars

\* The record of the tab that wrote localStorage last
LastWriter == IF otherTab.wroteLast THEN otherTab.data ELSE data

\* C27: with two tabs open over one storage key, after any interleaving of
\* their mutating operations the persisted record is the whole in-memory
\* record of the tab that wrote last; what the other tab holds that the last
\* writer does not is not in the persisted record.
C27_LastWriteWins ==
  (otherTab.open /\ storage.kind = "doc") =>
    /\ Equivalent(storage, LastWriter)
    /\ storage = stringify(LastWriter)

\* C27 witness: this tab saved a score for module1 after the other tab had
\* loaded; the other tab then marked a section of module3 and its write
\* replaced the record: the score is in this tab's memory and not persisted
C27_Witness ==
  /\ otherTab.open /\ otherTab.wroteLast
  /\ data.modules["module1"].quizScore = Num(85)
  /\ otherTab.data.modules["module1"].quizScore = Null
  /\ BagIn(1, otherTab.data.modules["module3"].sectionsCompleted)
  /\ storage.modules["module1"].quizScore = Null
  /\ BagIn(1, storage.modules["module3"].sectionsCompleted)

====
